---- MODULE Spec2Model ----
(***************************************************************************)
(* Model of excel_writer.py: the worksheet writers (WorksheetWriter and    *)
(* its Selic/CDI/IPCA/TR variants), the MetadataWriter and the             *)
(* IndicatorsWorkbook that owns them.                                      *)
(*                                                                         *)
(* A cell value is a pair <<type, payload>>, because the code depends on   *)
(* the Python type a cell holds: .date() exists on datetime.datetime only, *)
(* int() accepts some types and rejects others, and a workbook written to  *)
(* its file and loaded again holds datetime.datetime where datetime.date   *)
(* was written.                                                            *)
(***************************************************************************)
EXTENDS Integers, Sequences, FiniteSets, TLC

VARIABLES file, focus, alive, wb, protected, indicators_dates, touched, last, nwrites, nsessions

vars == <<file, focus, alive, wb, protected, indicators_dates, touched, last, nwrites, nsessions>>

----------------------------------------------------------------------------
(* Bounds *)

NumMonths == 2
MaxLen == 2
MaxWrites == 2
MaxSessions == 2
MaxMetaRows == 2

----------------------------------------------------------------------------
(* Calendar dates as ordinals: order on the integers is order on the dates *)

MonthsPerYear == 12
DaySlots == 31

MkDate(year, month, day) == ((year * MonthsPerYear + (month - 1)) * DaySlots) + (day - 1)

DateYear(d) == (d \div DaySlots) \div MonthsPerYear

DateMonth(d) == ((d \div DaySlots) % MonthsPerYear) + 1

DateDay(d) == (d % DaySlots) + 1

DaysOfMonth == {1, 15}

DateSet == {MkDate(2023, m, d) : m \in 1..NumMonths, d \in DaysOfMonth}

----------------------------------------------------------------------------
(* Cell values *)

None == <<"none", 0>>

\* an empty cell that keeps the date number format of the date it once held
NoneStyled == <<"none", 1>>

PyDate(d) == <<"date", d>>

PyDatetime(d) == <<"datetime", d>>

PyInt(n) == <<"int", n>>

PyDecimal(n) == <<"decimal", n>>

PyFloat(n) == <<"float", n>>

PyStr(s) == <<"str", s>>

IsNone(c) == c[1] = "none"

\* cell.value = None: the value is dropped, the cell and its format stay
ErasedCell(c) == IF c[1] \in {"date", "datetime"} \/ c = NoneStyled THEN NoneStyled ELSE None

\* what a workbook saved to its file and loaded again holds in place of c
LoadedCell(c) ==
    CASE c[1] = "date" -> PyDatetime(c[2])
      [] c[1] = "decimal" -> PyFloat(c[2])
      [] OTHER -> c

----------------------------------------------------------------------------
(* Worksheets: a sequence of rows, each a sequence of cells.  A cell that  *)
(* was never created reads as None.                                        *)

max_row(ws) == IF Len(ws) = 0 THEN 1 ELSE Len(ws)

max_column(ws) == IF Len(ws) = 0 THEN 1 ELSE Len(ws[1])

BlankRow(width) == [c \in 1..width |-> None]

\* worksheet.cell(row, column) creates the cells it is asked for
WithRow(ws, row, width) ==
    IF Len(ws) >= row THEN ws
    ELSE ws \o [i \in 1..(row - Len(ws)) |-> BlankRow(width)]

\* for column, v in enumerate(values, 1): worksheet.cell(row, column).value = v
WriteRow(ws, row, values) ==
    LET p == WithRow(ws, row, Len(values))
    IN [p EXCEPT ![row] = [c \in 1..Len(p[row]) |->
                              IF c > Len(values) THEN p[row][c]
                              ELSE IF values[c] = None THEN ErasedCell(p[row][c])
                              ELSE values[c]]]

RowIsBlank(r) == \A c \in 1..Len(r) : r[c] = None

\* the writer of the file leaves out a cell with neither a value nor a format
RECURSIVE StripBlankTail(_)
StripBlankTail(ws) ==
    IF Len(ws) = 0 THEN ws
    ELSE IF RowIsBlank(ws[Len(ws)]) THEN StripBlankTail(SubSeq(ws, 1, Len(ws) - 1))
    ELSE ws

LoadedSheet(ws) ==
    StripBlankTail([r \in 1..Len(ws) |-> [c \in 1..Len(ws[r]) |-> LoadedCell(ws[r][c])]])

----------------------------------------------------------------------------
(* decimal.Decimal values as integers counting units of 10^-8 *)

DecimalOne == 100000000

RoundHalfEvenNat_down(n, q) == n \div q

\* n / q rounded to an integer, ties to the even neighbour (Decimal.__round__)
RoundHalfEvenNat(n, q) ==
    LET k == n \div q
        r == n % q
    IN IF 2 * r > q \/ (2 * r = q /\ k % 2 = 1) THEN k + 1 ELSE k

RoundHalfEven(n, q) == IF n >= 0 THEN RoundHalfEvenNat(n, q) ELSE 0 - RoundHalfEvenNat(0 - n, q)

\* 1 + round(value * 1 / 100, 8)
DailyValue(value) == DecimalOne + RoundHalfEven(value, 100)

----------------------------------------------------------------------------
(* Record formatters *)

WriterKinds == {"selic", "cdi", "ipca", "tr"}

_get_headers(kind) ==
    CASE kind = "selic" -> <<PyStr("date"), PyStr("value"), PyStr("daily_value")>>
      [] kind = "cdi" -> <<PyStr("date"), PyStr("value"), PyStr("daily_value")>>
      [] kind = "ipca" -> <<PyStr("ano"), PyStr("mes"), PyStr("valor")>>
      [] kind = "tr" -> <<PyStr("data inicial"), PyStr("data final"), PyStr("valor")>>

SelicWriter_format_record(record) ==
    <<PyDate(record.date), PyDecimal(record.value), PyDecimal(DailyValue(record.value))>>

CdiWriter_format_record(record) ==
    <<PyDate(record.date), PyDecimal(record.value), PyDecimal(DailyValue(record.value))>>

IpcaWriter_format_record(record) ==
    <<PyInt(DateYear(record.date)), PyInt(DateMonth(record.date)), PyDecimal(record.value)>>

TrWriter_format_record(record) ==
    <<PyDate(record.date), PyDate(record.end_date), PyDecimal(record.value)>>

_format_record(kind, record) ==
    CASE kind = "selic" -> SelicWriter_format_record(record)
      [] kind = "cdi" -> CdiWriter_format_record(record)
      [] kind = "ipca" -> IpcaWriter_format_record(record)
      [] kind = "tr" -> TrWriter_format_record(record)

_write_headers_skip(kind, ws) == ws

_write_headers(kind, ws) == WriteRow(ws, 1, _get_headers(kind))

----------------------------------------------------------------------------
(* Row locator *)

Located(row) == [ok |-> TRUE, row |-> row]

LocateFailed == [ok |-> FALSE, row |-> 0]

\* worksheet.cell(row, 1).value.date(): only a datetime.datetime has .date()
WorksheetWriter_date_on_cell(ws, row) ==
    IF ws[row][1][1] = "datetime" THEN [ok |-> TRUE, date |-> ws[row][1][2]]
    ELSE [ok |-> FALSE, date |-> 0]

\* datetime.date(year, month, 1): both arguments must be integers
IpcaWriter_date_on_cell(ws, row) ==
    IF ws[row][1][1] = "int" /\ ws[row][2][1] = "int"
    THEN [ok |-> TRUE, date |-> MkDate(ws[row][1][2], ws[row][2][2], 1)]
    ELSE [ok |-> FALSE, date |-> 0]

date_on_cell(kind, ws, row) ==
    IF kind = "ipca" THEN IpcaWriter_date_on_cell(ws, row)
    ELSE WorksheetWriter_date_on_cell(ws, row)

\* for row in range(max_row, 1, -1): ... else: return 1
RECURSIVE ScanFirstRow(_, _, _, _)
ScanFirstRow(kind, ws, row, first_date) ==
    IF row < 2 THEN Located(1)
    ELSE LET key == date_on_cell(kind, ws, row)
         IN IF ~key.ok THEN LocateFailed
            ELSE IF key.date = first_date THEN Located(row)
            ELSE IF key.date < first_date THEN Located(row + 1)
            ELSE ScanFirstRow(kind, ws, row - 1, first_date)

_get_first_row(kind, ws, first_date) == ScanFirstRow(kind, ws, max_row(ws), first_date)

----------------------------------------------------------------------------
(* Reconciling writer *)

_erase_extra_records_noop(ws, row) == ws

\* for row in range(row, max_row + 1): every cell of the row := None
_erase_extra_records(ws, row) ==
    [r \in 1..Len(ws) |->
        IF r >= row THEN [c \in 1..Len(ws[r]) |-> ErasedCell(ws[r][c])] ELSE ws[r]]

RECURSIVE WriteFormatted(_, _, _, _, _)
WriteFormatted(kind, ws, records, i, first_row) ==
    IF i > Len(records) THEN ws
    ELSE WriteFormatted(kind,
                        WriteRow(ws, first_row + i - 1, _format_record(kind, records[i])),
                        records, i + 1, first_row)

\* records[0].date: indexing an empty sequence raises IndexError
first_record_date(records) ==
    IF Len(records) = 0 THEN [raised |-> "IndexError", date |-> 0]
    ELSE [raised |-> "", date |-> records[1].date]

CaughtByWriter_lookup(exc) == exc \in {"KeyError", "IndexError"}

\* except KeyError: first_row = 1
CaughtByWriter(exc) == exc = "KeyError"

\* the result of WorksheetWriter(worksheet, records): whether it returned, the
\* worksheet it leaves, and the row _get_first_row returned.  With no record
\* written row is unbound and the rows from first_row on are erased, which
\* is row + 1 for row = first_row + len(records) - 1 as well.
_write_records(kind, ws, records) ==
    LET first == first_record_date(records)
        loc == IF first.raised = "" THEN _get_first_row(kind, ws, first.date) ELSE Located(1)
        with_headers == IF loc.row = 1 THEN _write_headers(kind, ws) ELSE ws
        first_row == IF loc.row = 1 THEN 2 ELSE loc.row
        written == WriteFormatted(kind, with_headers, records, 1, first_row)
        row == first_row + Len(records) - 1
    IN IF first.raised # "" /\ ~CaughtByWriter(first.raised)
       THEN [ok |-> FALSE, ws |-> ws, first_row |-> 0]
       ELSE IF ~loc.ok THEN [ok |-> FALSE, ws |-> ws, first_row |-> 0]
       ELSE [ok |-> TRUE, ws |-> _erase_extra_records(written, row + 1), first_row |-> loc.row]

----------------------------------------------------------------------------
(* Metadata store *)

MetadataHeaders == <<PyStr("indicator"), PyStr("last date")>>

MetadataWriter_write_headers(ws) == WriteRow(ws, 1, MetadataHeaders)

NumericTexts == {"11", "433"}

TextToInt(s) == IF s = "11" THEN 11 ELSE 433

\* int(value): "int" is a number, "skip" a TypeError (caught), "raise" a ValueError
IntOf(c) ==
    CASE c[1] = "int" -> [kind |-> "int", n |-> c[2]]
      [] c[1] \in {"float", "decimal"} -> [kind |-> "int", n |-> c[2] \div DecimalOne]
      [] c[1] = "str" /\ c[2] \in NumericTexts -> [kind |-> "int", n |-> TextToInt(c[2])]
      [] c[1] = "str" /\ c[2] \notin NumericTexts -> [kind |-> "raise", n |-> 0]
      [] OTHER -> [kind |-> "skip", n |-> 0]

DateOrNone_never(c) == None

\* value.date(), None on AttributeError
DateOrNone(c) == IF c[1] = "datetime" THEN PyDate(c[2]) ELSE None

Put(map, key, value) == [k \in DOMAIN map \cup {key} |-> IF k = key THEN value ELSE map[k]]

RECURSIVE ScanMetadata_keep(_, _, _)
ScanMetadata_keep(ws, row, indicador_date) ==
    IF row < 2 THEN [ok |-> TRUE, dates |-> indicador_date]
    ELSE LET cod == IntOf(ws[row][1])
         IN IF cod.kind = "raise" THEN [ok |-> FALSE, dates |-> <<>>]
            ELSE IF cod.kind = "skip" \/ cod.n \in DOMAIN indicador_date
            THEN ScanMetadata_keep(ws, row - 1, indicador_date)
            ELSE ScanMetadata_keep(ws, row - 1, Put(indicador_date, cod.n, DateOrNone(ws[row][2])))

\* rows max_row .. 2 of the metadata sheet, read in that order into the mapping
RECURSIVE ScanMetadata(_, _, _)
ScanMetadata(ws, row, indicador_date) ==
    IF row < 2 THEN [ok |-> TRUE, dates |-> indicador_date]
    ELSE LET cod == IntOf(ws[row][1])
         IN IF cod.kind = "raise" THEN [ok |-> FALSE, dates |-> <<>>]
            ELSE IF cod.kind = "skip" THEN ScanMetadata(ws, row - 1, indicador_date)
            ELSE ScanMetadata(ws, row - 1, Put(indicador_date, cod.n, DateOrNone(ws[row][2])))

_get_indicator_last_date(ws) == ScanMetadata(ws, max_row(ws), <<>>)

Least(S) == CHOOSE x \in S : \A y \in S : x <= y

RECURSIVE SortedSeq(_)
SortedSeq(S) == IF S = {} THEN <<>> ELSE <<Least(S)>> \o SortedSeq(S \ {Least(S)})

RECURSIVE WriteDates(_, _, _, _)
WriteDates(ws, dates, order, i) ==
    IF i > Len(order) THEN ws
    ELSE WriteDates(WriteRow(ws, i + 1, <<PyInt(order[i]), dates[order[i]]>>), dates, order, i + 1)

\* for indicator, date in sorted(indicators_dates.items()): row 2, 3, ...
write_indicators_last_date(ws, dates) == WriteDates(ws, dates, SortedSeq(DOMAIN dates), 1)

----------------------------------------------------------------------------
(* Workbook *)

MetadataCode == -1
SelicCode == 11
CdiCode == 12
IpcaCode == 433
TrCode == 226

IndicatorCodes == {SelicCode, CdiCode, IpcaCode, TrCode}

RegisteredCodes == IndicatorCodes \cup {MetadataCode}

\* an indicator code that is no key of _worksheet_properties
UnknownCodes == {999}

_worksheet_properties(code) ==
    CASE code = MetadataCode -> [name |-> "metadata", writer |-> "metadata"]
      [] code = SelicCode -> [name |-> "selic", writer |-> "selic"]
      [] code = CdiCode -> [name |-> "cdi", writer |-> "cdi"]
      [] code = IpcaCode -> [name |-> "ipca", writer |-> "ipca"]
      [] code = TrCode -> [name |-> "tr", writer |-> "tr"]

NoFile == [exists |-> FALSE, sheets |-> <<>>, protected |-> {}]

\* try: ws = workbook[name]  except KeyError: ws = workbook.create_sheet(name)
_create_sheet_always(workbook, code) ==
    LET name == _worksheet_properties(code).name
    IN [n \in DOMAIN workbook \cup {name} |-> IF n = name THEN <<>> ELSE workbook[n]]

\* self._workbook[name] if there is one, else create_sheet(name), which has
\* no cell
_create_sheet(workbook, code) ==
    LET name == _worksheet_properties(code).name
    IN IF name \in DOMAIN workbook THEN workbook
       ELSE [n \in DOMAIN workbook \cup {name} |-> IF n = name THEN <<>> ELSE workbook[n]]

\* IndicatorsWorkbook(): the workbook loaded or created, the metadata sheet
\* ensured, its headers written and the mapping read from it
IndicatorsWorkbook_init(f) ==
    LET loaded == IF f.exists THEN f.sheets ELSE <<>>
        created == _create_sheet(loaded, MetadataCode)
        headed == [created EXCEPT !["metadata"] = MetadataWriter_write_headers(@)]
        scan == _get_indicator_last_date(headed["metadata"])
    IN [ok |-> scan.ok, workbook |-> headed, dates |-> scan.dates,
        protected |-> IF f.exists THEN f.protected ELSE {}]

get_indicator_last_date_registered(dates, code) ==
    IF code \in DOMAIN dates /\ code \in RegisteredCodes THEN dates[code] ELSE None

get_indicator_last_date(dates, code) == IF code \in DOMAIN dates THEN dates[code] ELSE None

\* workbook.save(path): what load_workbook(path) returns afterwards
SavedFile(workbook, prot) ==
    [exists |-> TRUE, sheets |-> [n \in DOMAIN workbook |-> LoadedSheet(workbook[n])],
     protected |-> prot]

SheetNames == {_worksheet_properties(code).name : code \in RegisteredCodes}

\* the sheets _protect_all_sheets sets the protection of
_get_existing_indicators_sheets(workbook) == DOMAIN workbook \cap SheetNames

Flushed_skip(workbook, dates) == workbook

\* save() first has the metadata writer rewrite its sheet from the mapping
Flushed(workbook, dates) ==
    [workbook EXCEPT !["metadata"] = write_indicators_last_date(@, dates)]

\* workbook.save refuses a workbook none of whose sheets is visible
sheet_state(name) == IF name = "metadata" THEN "veryHidden" ELSE "visible"

CanSave(workbook) == \E n \in DOMAIN workbook : sheet_state(n) = "visible"

set_indicator_date_dropped(dates, code, last_non_extended_date) == dates

set_indicator_date_all(dates, code, last_non_extended_date) ==
    [k \in DOMAIN dates \cup {code} |-> last_non_extended_date]

\* indicators_dates[indicator_code] = last_non_extended_date
set_indicator_date(dates, code, last_non_extended_date) == Put(dates, code, last_non_extended_date)

write_records_set_first(workbook, dates, code, records, last_non_extended_date) ==
    LET props == _worksheet_properties(code)
        created == _create_sheet(workbook, code)
        res == _write_records(props.writer, created[props.name], records)
        set == set_indicator_date(dates, code, last_non_extended_date)
    IN IF code \notin RegisteredCodes
       THEN [ok |-> FALSE, workbook |-> workbook, dates |-> dates, first_row |-> 0]
       ELSE IF code = MetadataCode \/ ~res.ok
       THEN [ok |-> FALSE, workbook |-> created, dates |-> set, first_row |-> 0]
       ELSE [ok |-> TRUE,
             workbook |-> [created EXCEPT ![props.name] = res.ws],
             dates |-> set,
             first_row |-> res.first_row]

write_records_flushing(workbook, dates, code, records, last_non_extended_date) ==
    LET props == _worksheet_properties(code)
        created == _create_sheet(workbook, code)
        res == _write_records(props.writer, created[props.name], records)
        set == set_indicator_date(dates, code, last_non_extended_date)
    IN IF code \notin RegisteredCodes
       THEN [ok |-> FALSE, workbook |-> workbook, dates |-> dates, first_row |-> 0]
       ELSE IF code = MetadataCode \/ ~res.ok
       THEN [ok |-> FALSE, workbook |-> created, dates |-> dates, first_row |-> 0]
       ELSE [ok |-> TRUE,
             workbook |-> Flushed([created EXCEPT ![props.name] = res.ws], set),
             dates |-> set,
             first_row |-> res.first_row]

\* the workbook and the mapping write_records leaves, and whether it returned
write_records(workbook, dates, code, records, last_non_extended_date) ==
    LET props == _worksheet_properties(code)
        created == _create_sheet(workbook, code)
        res == _write_records(props.writer, created[props.name], records)
    IN IF code \notin RegisteredCodes
       THEN [ok |-> FALSE, workbook |-> workbook, dates |-> dates, first_row |-> 0]
       ELSE IF code = MetadataCode
       THEN [ok |-> FALSE, workbook |-> created, dates |-> dates, first_row |-> 0]
       ELSE IF ~res.ok
       THEN [ok |-> FALSE, workbook |-> created, dates |-> dates, first_row |-> 0]
       ELSE [ok |-> TRUE,
             workbook |-> [created EXCEPT ![props.name] = res.ws],
             dates |-> set_indicator_date(dates, code, last_non_extended_date),
             first_row |-> res.first_row]

----------------------------------------------------------------------------
(* Inputs *)

\* every record of the k-th write carries the value 0.065 + k * 10^-8
BatchValue(k) == 6500000 + k

\* 0.065 and 0.0650015
ValueSet == {6500000, 6500150}

MkRecord(d, v) == [date |-> d, value |-> v, end_date |-> d + DaySlots]

AscendingDates(D, n) == {s \in [1..n -> D] : \A i \in 1..n, j \in 1..n : i < j => s[i] < s[j]}

\* the RecordSets over the dates D: ascending, no duplicate date, not empty
DateSeqs(D) == UNION {AscendingDates(D, n) : n \in 1..MaxLen}

MkRecords(s, v) == [i \in 1..Len(s) |-> MkRecord(s[i], v)]

FirstOfMonth == {d \in DateSet : DateDay(d) = 1}

LastDates(s) == {None, PyDate(s[1]), PyDate(s[Len(s)])}

\* the key a record gets in its sheet: year and month for IPCA, else the date
RecordKey(kind, d) == IF kind = "ipca" THEN DateYear(d) * MonthsPerYear + DateMonth(d) ELSE d

\* no two records of the RecordSet get the same key
DistinctKeys(kind, s) == \A i \in 1..Len(s), j \in 1..Len(s) : i < j => RecordKey(kind, s[i]) < RecordKey(kind, s[j])

NoOp == [op |-> "none", code |-> 0, records |-> <<>>, lnd |-> None, ok |-> TRUE,
         first_row |-> 0, pre_ws |-> <<>>, pre_dates |-> <<>>, pre_wb |-> <<>>,
         prev_op |-> "none", prev_code |-> 0, prev_records |-> <<>>, prev_ok |-> TRUE]

\* the record of an operation, after the operation recorded in before
Op(before, fields) ==
    [fields EXCEPT !.prev_op = before.op, !.prev_code = before.code,
                   !.prev_records = before.records, !.prev_ok = before.ok]

SheetOf(workbook, code) ==
    IF code \notin RegisteredCodes THEN <<>>
    ELSE LET name == _worksheet_properties(code).name
         IN IF name \in DOMAIN workbook THEN workbook[name] ELSE <<>>

----------------------------------------------------------------------------
(* The store over its sessions *)

Start(f, c) ==
    /\ file = f
    /\ focus = c
    /\ alive = FALSE
    /\ wb = <<>>
    /\ protected = {}
    /\ indicators_dates = <<>>
    /\ touched = {}
    /\ last = NoOp
    /\ nwrites = 0
    /\ nsessions = 0

Construct ==
    /\ ~alive
    /\ nsessions < MaxSessions
    /\ LET r == IndicatorsWorkbook_init(file)
       IN /\ alive' = r.ok
          /\ wb' = IF r.ok THEN r.workbook ELSE <<>>
          /\ protected' = IF r.ok THEN r.protected ELSE {}
          /\ indicators_dates' = r.dates
          /\ touched' = DOMAIN r.dates
          /\ last' = Op(last, [NoOp EXCEPT !.op = "construct", !.ok = r.ok])
    /\ nsessions' = nsessions + 1
    /\ UNCHANGED <<file, focus, nwrites>>

WriteRecords(code, records, lnd) ==
    /\ alive
    /\ nwrites < MaxWrites
    /\ LET r == write_records(wb, indicators_dates, code, records, lnd)
       IN /\ wb' = r.workbook
          /\ indicators_dates' = r.dates
          /\ touched' = IF r.ok THEN touched \cup {code} ELSE touched
          /\ last' = Op(last, [NoOp EXCEPT !.op = "write", !.code = code, !.records = records,
                                            !.lnd = lnd, !.ok = r.ok, !.first_row = r.first_row,
                                            !.pre_ws = SheetOf(wb, code),
                                            !.pre_dates = indicators_dates,
                                            !.pre_wb = wb])
    /\ nwrites' = nwrites + 1
    /\ UNCHANGED <<file, focus, alive, protected, nsessions>>

GetLastDate(code) ==
    /\ alive
    /\ last' = Op(last, [NoOp EXCEPT !.op = "get", !.code = code,
                                     !.lnd = get_indicator_last_date(indicators_dates, code),
                                     !.pre_dates = indicators_dates,
                                     !.pre_wb = wb])
    /\ UNCHANGED <<file, focus, alive, wb, protected, indicators_dates, touched, nwrites, nsessions>>

Save ==
    /\ alive
    /\ LET flushed == Flushed(wb, indicators_dates)
           prot == protected \cup _get_existing_indicators_sheets(flushed)
       IN /\ wb' = flushed
          /\ protected' = prot
          /\ file' = IF CanSave(flushed) THEN SavedFile(flushed, prot) ELSE file
          /\ last' = Op(last, [NoOp EXCEPT !.op = "save", !.ok = CanSave(flushed),
                                            !.pre_ws = wb["metadata"],
                                            !.pre_dates = indicators_dates,
                                            !.pre_wb = wb])
    /\ UNCHANGED <<focus, alive, indicators_dates, touched, nwrites, nsessions>>

Close ==
    /\ alive
    /\ alive' = FALSE
    /\ wb' = <<>>
    /\ protected' = {}
    /\ indicators_dates' = <<>>
    /\ touched' = {}
    /\ last' = Op(last, [NoOp EXCEPT !.op = "close"])
    /\ UNCHANGED <<file, focus, nwrites, nsessions>>

(* The whole store: every indicator, records dated the first of a month *)

Init == Start(NoFile, 0)

Next ==
    \/ Construct
    \/ \E code \in IndicatorCodes, s \in DateSeqs(FirstOfMonth) :
          \E lnd \in LastDates(s) : WriteRecords(code, MkRecords(s, BatchValue(nwrites)), lnd)
    \/ Save
    \/ Close

Spec == Init /\ [][Next]_vars

(* One indicator at a time, records of any date *)

WriterOf(code) == _worksheet_properties(code).writer

InitWriter == \E c \in IndicatorCodes : Start(NoFile, c)

NextWriter ==
    \/ Construct
    \/ \E s \in {t \in DateSeqs(DateSet) : DistinctKeys(WriterOf(focus), t)}, v \in ValueSet :
          WriteRecords(focus, MkRecords(s, v), PyDate(s[Len(s)]))
    \/ Save
    \/ Close

SpecWriter == InitWriter /\ [][NextWriter]_vars

(* Any identifier, registered or not, and any RecordSet, empty or not, on a
   new store or on a file whose metadata sheet carries a row of an
   unregistered identifier *)

AnyCodes == {MetadataCode, SelicCode} \cup UnknownCodes

RegistryFiles ==
    {NoFile} \cup
    {[exists |-> TRUE,
      sheets |-> [n \in {"metadata", "selic"} |->
                     IF n = "metadata"
                     THEN <<MetadataHeaders, <<PyInt(c), PyDatetime(MkDate(2023, 1, 1))>>>>
                     ELSE <<_get_headers("selic")>>],
      protected |-> {"metadata", "selic"}] : c \in UnknownCodes}

InitRegistry == \E f \in RegistryFiles : Start(f, 0)

NextRegistry ==
    \/ Construct
    \/ \E code \in AnyCodes, d \in FirstOfMonth :
          WriteRecords(code, MkRecords(<<d>>, BatchValue(nwrites)), PyDate(d))
    \/ \E code \in AnyCodes : WriteRecords(code, <<>>, None)
    \/ \E code \in AnyCodes : GetLastDate(code)
    \/ Save
    \/ Close

SpecRegistry == InitRegistry /\ [][NextRegistry]_vars

(* The Selic and the CDI sheet, one record a write, of values on either side
   of a rounding tie *)

RoundValues ==
    {0, 49, 50, 51, 150, 250, 6500000, 6500150, 0 - 50, 0 - 150}

InitRound == \E c \in {SelicCode, CdiCode} : Start(NoFile, c)

NextRound ==
    \/ Construct
    \/ \E d \in FirstOfMonth, v \in RoundValues :
          WriteRecords(focus, MkRecords(<<d>>, v), PyDate(d))
    \/ Save
    \/ Close

SpecRound == InitRound /\ [][NextRound]_vars

(* One indicator, on the file an earlier run saved with one record for each
   month *)

RepeatFile(code) ==
    LET new == IndicatorsWorkbook_init(NoFile)
        dates == [i \in 1..NumMonths |-> MkDate(2023, i, 1)]
        r == write_records(new.workbook, new.dates, code, MkRecords(dates, BatchValue(0)),
                           PyDate(dates[NumMonths]))
        flushed == Flushed(r.workbook, r.dates)
    IN SavedFile(flushed, _get_existing_indicators_sheets(flushed))

InitRepeat == \E c \in IndicatorCodes : Start(RepeatFile(c), c)

NextRepeat ==
    \/ Construct
    \/ \E s \in DateSeqs(FirstOfMonth) :
          WriteRecords(focus, MkRecords(s, BatchValue(nwrites + 1)), PyDate(s[Len(s)]))
    \/ Save
    \/ Close

SpecRepeat == InitRepeat /\ [][NextRepeat]_vars

(* The metadata sheet of the file as anyone may have left it *)

MetaIdCells ==
    {PyInt(SelicCode), PyInt(IpcaCode), PyStr("11"), PyStr("abc"), PyFloat(1150000000),
     PyDatetime(MkDate(2023, 1, 1))}

MetaDateCells == {None, PyDatetime(MkDate(2023, 1, 1)), PyStr("abc")}

MetaRows == {<<a, b>> : a \in MetaIdCells, b \in MetaDateCells}

MetaSheets == UNION {[1..n -> MetaRows] : n \in 0..MaxMetaRows}

MetaFiles ==
    {[exists |-> TRUE,
      sheets |-> [n \in {"metadata", "selic"} |->
                     IF n = "metadata" THEN <<MetadataHeaders>> \o rows
                     ELSE <<_get_headers("selic")>>],
      protected |-> {"metadata", "selic"}] : rows \in MetaSheets}

InitMeta == \E f \in MetaFiles : Start(f, 0)

NextMeta ==
    \/ Construct
    \/ \E code \in {SelicCode, CdiCode}, lnd \in {None, PyDate(MkDate(2023, 2, 1))} :
          WriteRecords(code, MkRecords(<<MkDate(2023, 1, 1)>>, BatchValue(nwrites)), lnd)
    \/ Save
    \/ Close

SpecMeta == InitMeta /\ [][NextMeta]_vars

----------------------------------------------------------------------------
(* Properties *)

DateKeyedCodes == {SelicCode, CdiCode, TrCode}

\* rows 2..max_row all hold a date the row locator can read, strictly ascending
AscendingByDate(ws) ==
    \A r \in 2..Len(ws) :
        /\ ws[r][1][1] = "datetime"
        /\ r > 2 => ws[r - 1][1][2] < ws[r][1][2]

\* the number of data rows of ws dated strictly before d
RowsBefore(ws, d) == Cardinality({r \in 2..Len(ws) : ws[r][1][2] < d})

RowIsEmpty(r) == \A c \in 1..Len(r) : IsNone(r[c])

LastWrote == last.op = "write"

C1_WitnessErase ==
    /\ LastWrote /\ last.code \in DateKeyedCodes /\ AscendingByDate(last.pre_ws)
    /\ Len(last.pre_ws) >= 3
    /\ RowIsEmpty(SheetOf(wb, last.code)[Len(last.pre_ws)])

\* the primary key of a data row: the date, or year and month for IPCA
PrimaryKey(kind, r) == IF kind = "ipca" THEN r[1][2] * MonthsPerYear + r[2][2] ELSE r[1][2]

\* C2: whatever RecordSets (ascending, no duplicate key) were written, the
\* non-empty data rows of the sheet are strictly ascending by primary key, so
\* no two of them share a key
C2_RowsAscending ==
    alive =>
        LET ws == SheetOf(wb, focus)
            kind == WriterOf(focus)
        IN \A r1 \in 2..Len(ws), r2 \in 2..Len(ws) :
              (r1 < r2 /\ ~RowIsEmpty(ws[r1]) /\ ~RowIsEmpty(ws[r2]))
                  => PrimaryKey(kind, ws[r1]) < PrimaryKey(kind, ws[r2])

\* the rows of ws that hold the year and month of date d
RowsOfMonth(ws, d) ==
    {r \in 2..Len(ws) : ws[r][1] = PyInt(DateYear(d)) /\ ws[r][2] = PyInt(DateMonth(d))}

\* C3: an IPCA write whose first record falls in a year and month the sheet
\* already has a row for starts at that row, whatever the day of the month
C3_MonthMatch ==
    (LastWrote /\ last.code = IpcaCode /\ last.ok) =>
        \A r \in RowsOfMonth(last.pre_ws, last.records[1].date) : last.first_row = r

\* C4: a RecordSet written to an empty sheet and then written again leaves
\* the sheet as the first write left it
C4_Idempotent ==
    (/\ LastWrote
     /\ last.prev_op = "write" /\ last.prev_code = last.code /\ last.prev_records = last.records
     /\ last.pre_ws = _write_records(WriterOf(last.code), <<>>, last.records).ws)
        => SheetOf(wb, last.code) = last.pre_ws

\* C5: after a write that returned, the last date of its indicator is the
\* last_non_extended_date it was given; an indicator neither loaded nor
\* written has none
C5_LastDate ==
    /\ (LastWrote /\ last.ok) => get_indicator_last_date(indicators_dates, last.code) = last.lnd
    /\ alive => \A code \in RegisteredCodes \ touched :
                    get_indicator_last_date(indicators_dates, code) = None

\* a write whose last_non_extended_date is not the date of its last record
C5_Witness ==
    /\ LastWrote /\ last.ok
    /\ last.lnd # None
    /\ last.lnd # PyDate(last.records[Len(last.records)].date)
    /\ RegisteredCodes \ touched # {}

MetaIds == RegisteredCodes \cup {n \in 0..500 : PyInt(n) \in MetaIdCells}

C7_SavePersists ==
    (last.op = "save" /\ last.ok) =>
        LET r == IndicatorsWorkbook_init(file)
        IN /\ r.ok
           /\ \A code \in RegisteredCodes :
                 get_indicator_last_date(r.dates, code)
                    = get_indicator_last_date(last.pre_dates, code)

\* a save of a mapping with a date the metadata sheet did not hold yet
C7_Witness ==
    /\ last.op = "save" /\ last.ok
    /\ \E code \in DOMAIN last.pre_dates : last.pre_dates[code] # None
    /\ last.pre_ws # wb["metadata"]
    /\ nsessions > 1

\* C8: after the flush rows 2.. of the metadata sheet are the mapping, one
\* row per identifier in ascending order, and nothing else
C8_FlushExact ==
    last.op = "save" =>
        LET ws == wb["metadata"]
            order == SortedSeq(DOMAIN indicators_dates)
        IN /\ Len(ws) >= 1 + Len(order)
           /\ \A i \in 1..Len(order) : ws[i + 1] = <<PyInt(order[i]), indicators_dates[order[i]]>>
           /\ \A r \in (2 + Len(order))..Len(ws) : RowIsEmpty(ws[r])

\* the metadata rows of the file whose identifier cell holds the integer n
RowsOfId(n) ==
    LET ws == file.sheets["metadata"]
    IN {r \in 2..Len(ws) : ws[r][1] = PyInt(n)}

\* C9: the construction never fails on a row of the metadata sheet; rows with
\* an unreadable identifier are skipped and the others loaded, a readable
\* identifier with an unreadable date loads as None
C9_LoadTolerant ==
    (last.op = "construct" /\ file.exists) =>
        /\ last.ok
        /\ \A n \in MetaIds :
              /\ RowsOfId(n) # {} => n \in DOMAIN indicators_dates
              /\ (RowsOfId(n) # {} /\ \A r \in RowsOfId(n) : file.sheets["metadata"][r][2][1] # "datetime")
                    => get_indicator_last_date(indicators_dates, n) = None

\* C10: a write that starts at row 1 leaves the header labels in row 1 and
\* its first record in row 2
C10_Headers ==
    (LastWrote /\ last.ok /\ last.first_row = 1) =>
        LET post == SheetOf(wb, last.code)
        IN /\ Len(post) >= 2
           /\ post[1] = _get_headers(WriterOf(last.code))
           /\ post[2] = _format_record(WriterOf(last.code), last.records[1])

\* a write before every date of a sheet that has data rows
C10_Witness ==
    /\ LastWrote /\ last.ok /\ last.first_row = 1
    /\ Len(last.pre_ws) >= 2

\* a write to a sheet that did not exist
C10_WitnessNew ==
    /\ LastWrote /\ last.ok /\ last.first_row = 1
    /\ last.pre_ws = <<>>

\* C11: a write of no record does not return: the sheet keeps its cells and
\* the mapping its entries
C11_EmptyRejected ==
    (LastWrote /\ Len(last.records) = 0 /\ last.code \in IndicatorCodes) =>
        /\ ~last.ok
        /\ SheetOf(wb, last.code) = last.pre_ws
        /\ indicators_dates = last.pre_dates

\* a write of no record to a sheet that has data rows
C11_Witness ==
    /\ LastWrote /\ Len(last.records) = 0 /\ last.code \in IndicatorCodes
    /\ Len(last.pre_ws) >= 2

LastGot == alive /\ last.op = "get"

\* C12 as stated: both operations fail on an identifier that is no key of
\* the registry, and leave the sheets and the mapping as they were
C12_FailFast ==
    ((LastWrote \/ LastGot) /\ last.code \notin RegisteredCodes) =>
        /\ ~last.ok
        /\ wb = last.pre_wb
        /\ indicators_dates = last.pre_dates

\* C12: write_records fails on an identifier that is no key of the registry
\* and creates no sheet and no mapping entry; get_indicator_last_date does
\* not fail on one, it returns the mapping's entry for it, None when there is
\* none, and changes nothing
C12_ClosedRegistry ==
    /\ (LastWrote /\ last.code \notin RegisteredCodes) =>
          /\ ~last.ok
          /\ wb = last.pre_wb
          /\ indicators_dates = last.pre_dates
    /\ (LastGot /\ last.code \notin RegisteredCodes) =>
          /\ last.ok
          /\ last.lnd = IF \E k \in DOMAIN indicators_dates : k = last.code
                        THEN indicators_dates[last.code] ELSE None
          /\ wb = last.pre_wb
          /\ indicators_dates = last.pre_dates

\* the last date of an unregistered identifier that a row of the file carries
C12_Witness ==
    /\ LastGot
    /\ last.code \in UnknownCodes
    /\ last.lnd # None

\* a write of an unregistered identifier
C12_WitnessWrite ==
    /\ LastWrote
    /\ last.code \in UnknownCodes
    /\ DOMAIN wb # {"metadata"}

DescriptorName(code) == _worksheet_properties(code).name

\* C13: a store has its metadata sheet and no sheet but the descriptors', one
\* for a name; _create_sheet of a code whose sheet exists leaves every sheet
\* and cell as it is, and a write adds no sheet but the one of its code
C13_CreateOnce ==
    alive =>
        /\ "metadata" \in DOMAIN wb
        /\ DOMAIN wb \subseteq {DescriptorName(code) : code \in RegisteredCodes}
        /\ \A code \in RegisteredCodes :
              DescriptorName(code) \in DOMAIN wb => _create_sheet(wb, code) = wb
        /\ (LastWrote /\ last.code \in RegisteredCodes) =>
              DOMAIN wb = DOMAIN last.pre_wb \cup {DescriptorName(last.code)}

\* a write to a sheet that existed and had data rows
C13_Witness ==
    /\ LastWrote /\ last.ok
    /\ DescriptorName(last.code) \in DOMAIN last.pre_wb
    /\ Len(last.pre_ws) >= 2
    /\ DOMAIN wb = DOMAIN last.pre_wb

\* a write that created the sheet of its code
C13_WitnessNew ==
    /\ LastWrote /\ last.ok
    /\ DescriptorName(last.code) \notin DOMAIN last.pre_wb

\* q is value / 100 rounded to 8 fractional digits: the nearest multiple of
\* 10^-8, the even one of two equally near; value and q in units of 10^-8
RoundedTo8(value, q) ==
    LET diff == value - 100 * q
        dist == IF diff >= 0 THEN diff ELSE 0 - diff
    IN /\ 2 * dist <= 100
       /\ 2 * dist = 100 => q % 2 = 0

\* C14: the Selic and the CDI row of a record is (date, value, daily_value)
\* with daily_value = 1 + value / 100 rounded to 8 fractional digits, in
\* decimal; 0.065 gives 1.00065
C14_RoundingLaw ==
    (LastWrote /\ last.ok /\ last.code \in {SelicCode, CdiCode}) =>
        \A i \in 1..Len(last.records) :
            LET row == SheetOf(wb, last.code)[(IF last.first_row = 1 THEN 2 ELSE last.first_row) + i - 1]
                record == last.records[i]
            IN /\ Len(row) = 3
               /\ row[1] = PyDate(record.date)
               /\ row[2] = PyDecimal(record.value)
               /\ row[3][1] = "decimal"
               /\ RoundedTo8(record.value, row[3][2] - DecimalOne)
               /\ record.value = 6500000 => row[3][2] = 100065000

\* a record whose value / 100 lies halfway between two multiples of 10^-8,
\* the lower one odd
C14_Witness ==
    /\ LastWrote /\ last.ok /\ last.code \in {SelicCode, CdiCode}
    /\ Len(last.records) = 1
    /\ last.records[1].value = 150

\* C15: within a session the cells of the metadata sheet change in save only;
\* write_records leaves them as they are, whatever it sets in the mapping
C15_DeferredMetadata ==
    [][(alive /\ alive' /\ wb'["metadata"] # wb["metadata"]) => last'.op = "save"]_vars

\* a write has set a last date that no row of the metadata sheet holds
C15_Witness ==
    /\ LastWrote /\ last.ok
    /\ last.lnd # None
    /\ indicators_dates # last.pre_dates
    /\ wb["metadata"] = <<MetadataHeaders>>

\* a save has changed the rows of the metadata sheet
C15_WitnessSave ==
    /\ alive /\ last.op = "save"
    /\ wb["metadata"] # last.pre_ws

\* C16: a write that _get_first_row aborts on a data row it cannot read as a
\* date leaves every cell of the sheet and every last date as before
C16_FailedWriteUnchanged ==
    (LastWrote /\ ~last.ok /\ last.code \in IndicatorCodes /\ Len(last.records) > 0) =>
        /\ SheetOf(wb, last.code) = last.pre_ws
        /\ wb = last.pre_wb
        /\ indicators_dates = last.pre_dates

\* an aborted write to a sheet with data rows, of records whose last date is
\* not the one the mapping holds
C16_Witness ==
    /\ LastWrote /\ ~last.ok
    /\ Len(last.records) > 0
    /\ Len(last.pre_ws) >= 2
    /\ last.code \in DOMAIN last.pre_dates
    /\ last.pre_dates[last.code] # last.lnd

C17_WitnessFailed ==
    /\ LastWrote /\ ~last.ok
    /\ \E code \in IndicatorCodes \ {last.code} : Len(SheetOf(last.pre_wb, code)) >= 2

\* C18: when a write has erased the rows below its records, a further write
\* to the same sheet in the same session returns
C18_RepeatedWrite ==
    (/\ LastWrote
     /\ last.prev_op = "write" /\ last.prev_ok /\ last.prev_code = last.code
     /\ Len(last.records) > 0
     /\ Len(last.pre_ws) >= 2
     /\ RowIsEmpty(last.pre_ws[Len(last.pre_ws)])) => last.ok

\* the data rows of the metadata sheet of the file whose identifier cell
\* reads as the integer n
RowsReadAs(n) ==
    LET ws == file.sheets["metadata"]
    IN {r \in 2..Len(ws) : IntOf(ws[r][1]).kind = "int" /\ IntOf(ws[r][1]).n = n}

\* the date the cell c gives: that of a date-time, None otherwise
DateRead(c) == IF c[1] = "datetime" THEN <<"date", c[2]>> ELSE <<"none", 0>>

\* C19: of the rows of the metadata sheet with one integer identifier the
\* topmost gives the last date the constructed store has for it
C19_TopmostWins ==
    (last.op = "construct" /\ last.ok /\ file.exists) =>
        \A n \in MetaIds :
            RowsReadAs(n) # {} =>
                /\ n \in DOMAIN indicators_dates
                /\ indicators_dates[n] = DateRead(file.sheets["metadata"][Least(RowsReadAs(n))][2])

\* two rows of one identifier, a date in one and none in the other
C19_Witness ==
    /\ last.op = "construct" /\ last.ok /\ file.exists
    /\ \E n \in MetaIds :
          \E r1 \in RowsReadAs(n), r2 \in RowsReadAs(n) :
              /\ r1 < r2
              /\ DateRead(file.sheets["metadata"][r1][2]) # DateRead(file.sheets["metadata"][r2][2])

====
